---- MODULE Spec2Model ----
(***************************************************************************)
(* Model of Main.py: the per-frame pipeline                                *)
(*   cap.read -> flip -> detector.findHands -> format -> sendto x2 ->      *)
(*   resize/imshow -> waitKey                                              *)
(* followed by cap.release and cv2.destroyAllWindows.                      *)
(* The camera, the hand detector, the socket and the keyboard are external *)
(* collaborators; their results are nondeterministic inputs.               *)
(***************************************************************************)
EXTENDS Integers, Sequences, FiniteSets, TLC

\* ---- program constants (Main.py lines 8-13) ----
ORIGINAL_HEIGHT == 720
RIGHT_HAND_PORT == 5052
LEFT_HAND_PORT == 5053
\* number of landmarks of one hand (create_default_hand_data)
NUM_LANDMARKS == 21
\* ord('q')
ORD_Q == 113
\* height passed to cv2.resize: int(ORIGINAL_HEIGHT * SCALE_FACTOR), SCALE_FACTOR = 0.5
height == ORIGINAL_HEIGHT \div 2

\* ---- bounds of the model ----
\* number of cap.read calls explored
MaxFrames == 3

\* ---- inputs from the external collaborators ----
\* heights the camera may deliver (the 1280x720 request is only a request)
DeliveredHeights == {720, 480}
\* landmark 0 of the hands the detector may report; landmark i is derived
\* from it so that all 21 landmarks of a hand differ
Seeds == {<<100, 50, 0>>, <<640, 700, -5>>}
LmList(s) == [i \in 1..NUM_LANDMARKS |-> <<s[1] + (i - 1), s[2] + 2 * (i - 1), s[3] - (i - 1)>>]
Hands == [type : {"Right", "Left"}, lmList : {LmList(s) : s \in Seeds}]
\* detector.findHands with maxHands=2: zero, one or two hands
DetectorOutputs == {<<>>} \cup {<<a>> : a \in Hands} \cup {<<a, b>> : a \in Hands, b \in Hands}
\* cv2.waitKey results: -1 (no key), 'q', 'Q', Esc
KeyCodes == {-1, 113, 81, 27}

VARIABLES
    pc,            \* position of main_loop
    success,       \* result flag of the last cap.read
    img,           \* height of the current image
    hands,         \* result of the last detector.findHands
    prev_hands,    \* result of the findHands before that one
    data_to_send,  \* dict port -> record built by the last detect_and_format_hand_data
    idx,           \* position of the for loop of send_hand_data
    attempts,      \* sock.sendto calls of the current iteration, in order
    key,           \* result of the last cv2.waitKey
    captures,      \* number of cap.read calls
    detections,    \* number of detector.findHands calls
    nattempts,     \* number of sock.sendto calls
    send_errors,   \* number of "Failed to send data" log records
    released,      \* number of cap.release calls
    closed         \* number of cv2.destroyAllWindows calls

vars == <<pc, success, img, hands, prev_hands, data_to_send, idx, attempts, key,
          captures, detections, nattempts, send_errors, released, closed>>

Ports == {RIGHT_HAND_PORT, LEFT_HAND_PORT}

\* ---- pure functions ----
\* variant: the default record is passed through the y flip
create_default_hand_data_flipped == [i \in 1..NUM_LANDMARKS |-> <<0, ORIGINAL_HEIGHT, 0>>]

create_default_hand_data == [i \in 1..NUM_LANDMARKS |-> <<0, 0, 0>>]

\* variant: the flip uses the height of the delivered image
format_hand_data_img_height(landmarks, original_height) ==
    [i \in 1..Len(landmarks) |->
        <<landmarks[i][1], img - landmarks[i][2], landmarks[i][3]>>]

format_hand_data(landmarks, original_height) ==
    [i \in 1..Len(landmarks) |->
        <<landmarks[i][1], original_height - landmarks[i][2], landmarks[i][3]>>]

\* variant: the two ports are swapped
port_of_swapped(hand_type) == IF hand_type = "Right" THEN LEFT_HAND_PORT ELSE RIGHT_HAND_PORT

\* port = RIGHT_HAND_PORT if hand_type == 'Right' else LEFT_HAND_PORT
port_of(hand_type) == IF hand_type = "Right" THEN RIGHT_HAND_PORT ELSE LEFT_HAND_PORT

\* variant: an earlier hand is not overwritten by a later one (first write wins)
RECURSIVE route_first_wins(_, _, _)
route_first_wins(hs, original_height, d) ==
    IF hs = <<>> THEN d
    ELSE LET hand == Head(hs)
             hand_data == format_hand_data(hand.lmList, original_height)
         IN [route_first_wins(Tail(hs), original_height, d)
                EXCEPT ![port_of(hand.type)] = hand_data]

\* the for loop over hands, d being the dict built so far
RECURSIVE route(_, _, _)
route(hs, original_height, d) ==
    IF hs = <<>> THEN d
    ELSE LET hand == Head(hs)
             hand_data == format_hand_data(hand.lmList, original_height)
         IN route(Tail(hs), original_height, [d EXCEPT ![port_of(hand.type)] = hand_data])

\* variant: the dict of the previous frame is reused instead of a fresh default
detect_and_format_hand_data_reuse(hs, original_height) ==
    route(hs, original_height,
          IF detections = 0 THEN [p \in Ports |-> create_default_hand_data] ELSE data_to_send)

detect_and_format_hand_data(hs, original_height) ==
    route(hs, original_height, [p \in Ports |-> create_default_hand_data])

\* variant: only the records of detected hands are iterated
items_detected_only(d) ==
    SelectSeq(<< <<RIGHT_HAND_PORT, d[RIGHT_HAND_PORT]>>, <<LEFT_HAND_PORT, d[LEFT_HAND_PORT]>> >>,
              LAMBDA it : it[2] # create_default_hand_data)

\* dict.items(): the keys in insertion order, right port first
items(d) == << <<RIGHT_HAND_PORT, d[RIGHT_HAND_PORT]>>, <<LEFT_HAND_PORT, d[LEFT_HAND_PORT]>> >>

\* str of a tuple (x, y, z)
str_tuple(t) == "(" \o ToString(t[1]) \o ", " \o ToString(t[2]) \o ", " \o ToString(t[3]) \o ")"

RECURSIVE str_join(_, _)
str_join(data, i) ==
    IF i > Len(data) THEN ""
    ELSE (IF i > 1 THEN ", " ELSE "") \o str_tuple(data[i]) \o str_join(data, i + 1)

\* str of a list of tuples
str(data) == "[" \o str_join(data, 1) \o "]"

\* variant: any key press ends the loop
quit_pressed_any_key(k) == k # -1

\* cv2.waitKey(...) & 0xFF == ord('q')
quit_pressed(k) == (k % 256) = ORD_Q

\* ---- the loop ----
Running == pc \in {"read", "detect", "send", "imshow", "waitKey"}
Terminated == pc \in {"release", "destroyAllWindows", "done"}

Init ==
    /\ pc = "read"
    /\ success = FALSE
    /\ img = 0
    /\ hands = <<>>
    /\ prev_hands = <<>>
    /\ data_to_send = [p \in Ports |-> <<>>]
    /\ idx = 1
    /\ attempts = <<>>
    /\ key = -1
    /\ captures = 0
    /\ detections = 0
    /\ nattempts = 0
    /\ send_errors = 0
    /\ released = 0
    /\ closed = 0

\* success, img = cap.read() with success true
read_ok ==
    /\ pc = "read"
    /\ captures < MaxFrames
    /\ success' = TRUE
    /\ \E h \in DeliveredHeights : img' = h
    /\ captures' = captures + 1
    /\ attempts' = <<>>
    /\ pc' = "detect"
    /\ UNCHANGED <<hands, prev_hands, data_to_send, idx, key, detections, nattempts,
                   send_errors, released, closed>>

\* variant: a failed read is logged and the loop goes on to the next read
read_fail_continue ==
    /\ pc = "read"
    /\ captures < MaxFrames
    /\ success' = FALSE
    /\ img' = 0
    /\ captures' = captures + 1
    /\ attempts' = <<>>
    /\ pc' = "read"
    /\ UNCHANGED <<hands, prev_hands, data_to_send, idx, key, detections, nattempts,
                   send_errors, released, closed>>

\* cap.read() with success false: log and break
read_fail ==
    /\ pc = "read"
    /\ captures < MaxFrames
    /\ success' = FALSE
    /\ img' = 0
    /\ captures' = captures + 1
    /\ attempts' = <<>>
    /\ pc' = "release"
    /\ UNCHANGED <<hands, prev_hands, data_to_send, idx, key, detections, nattempts,
                   send_errors, released, closed>>

\* cv2.flip, then detect_and_format_hand_data(detector, img, ORIGINAL_HEIGHT)
detect ==
    /\ pc = "detect"
    /\ \E hs \in DetectorOutputs :
          /\ hands' = hs
          /\ data_to_send' = detect_and_format_hand_data(hs, ORIGINAL_HEIGHT)
    /\ prev_hands' = hands
    /\ detections' = detections + 1
    /\ idx' = 1
    /\ pc' = IF Len(items(data_to_send')) = 0 THEN "imshow" ELSE "send"
    /\ UNCHANGED <<success, img, attempts, key, captures, nattempts, send_errors,
                   released, closed>>

\* the sendto call of the current item of send_hand_data
sendto(ok) ==
    LET item == items(data_to_send)[idx]
    IN /\ attempts' = Append(attempts, [host |-> "127.0.0.1", port |-> item[1],
                                        data |-> item[2], payload |-> str(item[2]),
                                        ok |-> ok])
       /\ nattempts' = nattempts + 1
       /\ idx' = idx + 1

\* sock.sendto returns
sendto_ok ==
    /\ pc = "send"
    /\ sendto(TRUE)
    /\ pc' = IF idx = Len(items(data_to_send)) THEN "imshow" ELSE "send"
    /\ UNCHANGED <<success, img, hands, prev_hands, data_to_send, key, captures,
                   detections, send_errors, released, closed>>

\* variant: the exception of sock.sendto is not caught and leaves main_loop
sendto_except_uncaught ==
    /\ pc = "send"
    /\ sendto(FALSE)
    /\ send_errors' = send_errors + 1
    /\ pc' = "done"
    /\ UNCHANGED <<success, img, hands, prev_hands, data_to_send, key, captures,
                   detections, released, closed>>

\* sock.sendto raises: the exception is caught and logged, the for loop goes on
sendto_except ==
    /\ pc = "send"
    /\ sendto(FALSE)
    /\ send_errors' = send_errors + 1
    /\ pc' = IF idx = Len(items(data_to_send)) THEN "imshow" ELSE "send"
    /\ UNCHANGED <<success, img, hands, prev_hands, data_to_send, key, captures,
                   detections, released, closed>>

\* cv2.resize(img, (width, height)); cv2.imshow
imshow ==
    /\ pc = "imshow"
    /\ img' = height
    /\ pc' = "waitKey"
    /\ UNCHANGED <<success, hands, prev_hands, data_to_send, idx, attempts, key,
                   captures, detections, nattempts, send_errors, released, closed>>

\* if cv2.waitKey(SCREEN_UPDATE_RATE) & 0xFF == ord('q'): break
waitKey ==
    /\ pc = "waitKey"
    /\ \E k \in KeyCodes :
          /\ key' = k
          /\ pc' = IF quit_pressed(k) THEN "release" ELSE "read"
    /\ UNCHANGED <<success, img, hands, prev_hands, data_to_send, idx, attempts,
                   captures, detections, nattempts, send_errors, released, closed>>

\* variant: the camera is released only on the capture-failure exit
release_on_failure_only ==
    /\ pc = "release"
    /\ released' = released + (IF success THEN 0 ELSE 1)
    /\ pc' = "destroyAllWindows"
    /\ UNCHANGED <<success, img, hands, prev_hands, data_to_send, idx, attempts, key,
                   captures, detections, nattempts, send_errors, closed>>

\* cap.release()
release ==
    /\ pc = "release"
    /\ released' = released + 1
    /\ pc' = "destroyAllWindows"
    /\ UNCHANGED <<success, img, hands, prev_hands, data_to_send, idx, attempts, key,
                   captures, detections, nattempts, send_errors, closed>>

\* cv2.destroyAllWindows()
destroyAllWindows ==
    /\ pc = "destroyAllWindows"
    /\ closed' = closed + 1
    /\ pc' = "done"
    /\ UNCHANGED <<success, img, hands, prev_hands, data_to_send, idx, attempts, key,
                   captures, detections, nattempts, send_errors, released>>

Next ==
    \/ read_ok
    \/ read_fail
    \/ detect
    \/ sendto_ok
    \/ sendto_except
    \/ imshow
    \/ waitKey
    \/ release
    \/ destroyAllWindows

Spec == Init /\ [][Next]_vars

\* the program runs on: the clean-up statements are always executed
FairSpec == Spec /\ WF_vars(release) /\ WF_vars(destroyAllWindows)

\* ---- vocabulary of the properties, independent of the operators above ----
Zero21 == [i \in 1..21 |-> <<0, 0, 0>>]
PortFor(t) == IF t = "Right" THEN 5052 ELSE 5053
HasType(hs, t) == \E i \in 1..Len(hs) : hs[i].type = t
LastOfType(hs, t) ==
    hs[CHOOSE i \in 1..Len(hs) :
          /\ hs[i].type = t
          /\ \A j \in 1..Len(hs) : hs[j].type = t => j <= i]
Flipped(lms) == [i \in 1..21 |-> <<lms[i][1], 720 - lms[i][2], lms[i][3]>>]
Points(rec) == {rec[i] : i \in 1..Len(rec)}
\* the record one detector output determines for the port of handedness t
Expected(hs, t) == IF HasType(hs, t) THEN Flipped(LastOfType(hs, t).lmList) ELSE Zero21
\* an iteration whose capture succeeded and whose sends are all done
IterationSent == captures > 0 /\ success /\ pc \notin {"detect", "send"}
\* some sendto of the current iteration raised
SomeSendFailed == \E i \in 1..Len(attempts) : ~attempts[i].ok
DefaultPayload ==
    "[(0, 0, 0), (0, 0, 0), (0, 0, 0), (0, 0, 0), (0, 0, 0), (0, 0, 0), (0, 0, 0), "
    \o "(0, 0, 0), (0, 0, 0), (0, 0, 0), (0, 0, 0), (0, 0, 0), (0, 0, 0), (0, 0, 0), "
    \o "(0, 0, 0), (0, 0, 0), (0, 0, 0), (0, 0, 0), (0, 0, 0), (0, 0, 0), (0, 0, 0)]"

TypeOK ==
    /\ pc \in {"read", "detect", "send", "imshow", "waitKey", "release",
               "destroyAllWindows", "done"}
    /\ success \in BOOLEAN
    /\ hands \in DetectorOutputs
    /\ idx \in 1..3
    /\ Len(attempts) <= 2

\* C1: an iteration whose capture succeeded attempts exactly two sends, the
\* first to 127.0.0.1:5052 and the second to 127.0.0.1:5053, whatever the
\* number of detected hands; both are done when the key is polled, so they
\* are also done in the iteration that ends with the quit key.
C1_TwoSendsPerFrame ==
    /\ IterationSent =>
          /\ Len(attempts) = 2
          /\ attempts[1].host = "127.0.0.1" /\ attempts[1].port = 5052
          /\ attempts[2].host = "127.0.0.1" /\ attempts[2].port = 5053
          /\ nattempts = 2 * detections
    /\ pc = "send" => Len(attempts) = idx - 1 /\ idx <= 2

C1_Witness ==
    /\ pc = "release" /\ key = 113 /\ success
    /\ hands = <<>>
    /\ Len(attempts) = 2

\* C2: when no detected hand has a handedness, the record routed to the port
\* of that handedness (Right 5052, Left 5053) is the default record of 21
\* landmarks (0,0,0), and that is what is sent to the port.
C2_DefaultWhenAbsent ==
    detections > 0 =>
        \A t \in {"Right", "Left"} :
            ~HasType(hands, t) =>
                /\ data_to_send[PortFor(t)] = Zero21
                /\ \A i \in 1..Len(attempts) :
                       attempts[i].port = PortFor(t) =>
                           /\ attempts[i].data = Zero21
                           /\ attempts[i].payload = DefaultPayload

C2_Witness ==
    /\ pc = "imshow"
    /\ Len(hands) = 1 /\ hands[1].type = "Right"
    /\ data_to_send[5053] = Zero21
    /\ attempts[2].port = 5053 /\ attempts[2].payload = DefaultPayload

\* C3: with one or two hands of distinct handedness, the record of a detected
\* hand's port is that hand's own transformed landmarks in the same order,
\* and holds no landmark of the other hand.
C3_OwnLandmarks ==
    (/\ detections > 0
     /\ Len(hands) \in {1, 2}
     /\ Len(hands) = 2 => hands[1].type # hands[2].type) =>
        \A i \in 1..Len(hands) :
            /\ data_to_send[PortFor(hands[i].type)] = Flipped(hands[i].lmList)
            /\ \A j \in 1..Len(hands) :
                   (j # i /\ Points(hands[i].lmList) \cap Points(hands[j].lmList) = {}) =>
                       Points(data_to_send[PortFor(hands[i].type)])
                           \cap Points(Flipped(hands[j].lmList)) = {}

C3_Witness ==
    /\ pc = "send"
    /\ Len(hands) = 2
    /\ hands[1].type = "Left" /\ hands[2].type = "Right"
    /\ hands[1].lmList # hands[2].lmList
    /\ data_to_send[5053] = Flipped(hands[1].lmList)
    /\ data_to_send[5052] = Flipped(hands[2].lmList)

\* C4: every landmark (x, y, z) of a detected hand is sent as (x, 720 - y, z),
\* whatever height the camera delivered and whatever the display height is;
\* the result is not clamped.
C4_FlipByRequestedHeight ==
    \A i \in 1..Len(attempts) :
        \A t \in {"Right", "Left"} :
            (attempts[i].port = PortFor(t) /\ HasType(hands, t)) =>
                LET lms == LastOfType(hands, t).lmList
                IN /\ Len(attempts[i].data) = 21
                   /\ \A k \in 1..21 :
                          attempts[i].data[k] = <<lms[k][1], 720 - lms[k][2], lms[k][3]>>

C4_Witness ==
    /\ img = 480
    /\ Len(attempts) = 2 /\ Len(hands) = 2
    /\ hands[1].lmList[1] = <<100, 50, 0>> /\ hands[1].type = "Right"
    /\ attempts[1].data[1] = <<100, 670, 0>>
    /\ attempts[2].data[21][2] < 0

\* C5: a sendto that raises leaves the loop Running, the other port's send of
\* the frame is still attempted, and unless the quit key is pressed the loop
\* goes on to the next capture, whose iteration again attempts both sends.
C5_SendFailureTolerated ==
    /\ [](((send_errors > 0 /\ IterationSent) =>
               {attempts[i].port : i \in 1..Len(attempts)} = {5052, 5053})
          /\ (Terminated /\ send_errors > 0 => (~success \/ key = 113)))
    /\ [][/\ send_errors' > send_errors =>
               /\ Running'
               /\ ~attempts'[Len(attempts')].ok
               /\ idx = 1 => (pc' = "send" /\ idx' = 2)
          /\ (pc = "waitKey" /\ SomeSendFailed /\ key' # 113) => pc' = "read"]_vars

C5_Witness ==
    /\ captures = 2 /\ send_errors >= 3
    /\ pc = "imshow"
    /\ Len(attempts) = 2 /\ ~attempts[1].ok /\ attempts[2].port = 5053

\* C6: a failed capture ends the loop at once: no detection and no send in
\* that iteration, no further capture; when the very first capture fails the
\* program has sent no datagram at all.
C6_CaptureFailureFatal ==
    /\ []((captures > 0 /\ ~success) => (Terminated /\ attempts = <<>>))
    /\ []((captures = 1 /\ ~success) => (nattempts = 0 /\ detections = 0))
    /\ [][/\ (captures > 0 /\ ~success) => UNCHANGED <<captures, detections, nattempts, success>>
          /\ (captures' > captures /\ ~success') =>
                 (pc' = "release" /\ UNCHANGED <<detections, nattempts>>)]_vars

C6_Witness ==
    /\ captures = 1 /\ ~success
    /\ pc = "done"
    /\ nattempts = 0

\* C7: once the loop is Terminated, by capture failure or by the quit key,
\* the camera is released and the windows are closed, each exactly once,
\* and no capture, detection or send happens any more.
C7_CleanupOnce ==
    /\ [](released <= 1 /\ closed <= 1)
    /\ [](pc = "done" => (released = 1 /\ closed = 1))
    /\ [](Running => (released = 0 /\ closed = 0))
    /\ [][Terminated => UNCHANGED <<captures, detections, nattempts>>]_vars
    /\ (Terminated ~> (pc = "done" /\ released = 1 /\ closed = 1))

C7_Witness ==
    /\ pc = "done" /\ released = 1 /\ closed = 1
    /\ success /\ key = 113
    /\ captures = 2

\* C8: the loop leaves Running only on a failed capture or on the key 'q'
\* polled at the end of an iteration; no detector output, send outcome or
\* other key ends it, and Terminated is never left.
C8_OnlyTwoExits ==
    /\ [](Running \/ Terminated)
    /\ [][/\ (Running /\ ~Running') =>
                 \/ (pc = "read" /\ ~success' /\ captures' = captures + 1)
                 \/ (pc = "waitKey" /\ key' = 113)
          /\ (pc = "waitKey" /\ key' # 113) => pc' = "read"
          /\ pc \in {"detect", "send", "imshow"} => Running'
          /\ Terminated => Terminated']_vars

C8_Witness ==
    /\ pc = "read" /\ captures = 1
    /\ key = 81
    /\ Len(hands) = 2 /\ SomeSendFailed

\* C9: two hands with the same handedness in one frame: the port of that
\* handedness gets the transformed landmarks of the later hand, the other
\* port the default record.
C9_LastWriteWins ==
    (/\ detections > 0
     /\ Len(hands) = 2
     /\ hands[1].type = hands[2].type) =>
        /\ data_to_send[PortFor(hands[2].type)] = Flipped(hands[2].lmList)
        /\ \A p \in {5052, 5053} : p # PortFor(hands[2].type) => data_to_send[p] = Zero21

C9_Witness ==
    /\ pc = "send"
    /\ Len(hands) = 2
    /\ hands[1].type = "Left" /\ hands[2].type = "Left"
    /\ hands[1].lmList # hands[2].lmList
    /\ data_to_send[5053] = Flipped(hands[2].lmList)
    /\ data_to_send[5052] = Zero21

\* C10: the two records of an iteration are determined by that iteration's
\* detector output alone; a hand seen in the previous frame and absent now
\* gets the unaltered default record on its port.
C10_NoCarryOver ==
    detections > 0 =>
        \A t \in {"Right", "Left"} :
            /\ data_to_send[PortFor(t)] = Expected(hands, t)
            /\ \A i \in 1..Len(attempts) :
                   attempts[i].port = PortFor(t) => attempts[i].data = Expected(hands, t)
            /\ (detections > 1 /\ HasType(prev_hands, t) /\ ~HasType(hands, t)) =>
                   data_to_send[PortFor(t)] = Zero21

C10_Witness ==
    /\ detections = 2
    /\ pc = "waitKey"
    /\ HasType(prev_hands, "Right") /\ HasType(prev_hands, "Left")
    /\ hands = <<>>
    /\ attempts[1].data = Zero21 /\ attempts[2].data = Zero21
====
